---- MODULE Spec2Model ----
(***************************************************************************)
(* Model of app.py, the Streamlit unit converter: the cached load of       *)
(* units_data.json, the two conversion functions convert_standard and      *)
(* convert_temperature, and the script body main() that dispatches to      *)
(* them.                                                                   *)
(*                                                                         *)
(* Python values are records [k, n, d]:                                    *)
(*   k = "num"    a finite float or int, the rational n/d in lowest terms  *)
(*   k = "inf"    float infinity, n its sign                               *)
(*   k = "nan"    float NaN                                                *)
(*   k = "bigint" a JSON integer beyond the float range (e.g. 10**400)     *)
(*   k = "bool"   True (n = 1) or False (n = 0)                            *)
(*   k = "str", "null"   a JSON string, JSON null                          *)
(*   k = "None"   Python None as a return value                            *)
(*   k = "OverflowError", "ZeroDivisionError", "TypeError"   an exception  *)
(*                that the operation raised                                *)
(* Finite floats are modelled as exact rationals: binary rounding and the  *)
(* signed zero are abstracted.                                             *)
(***************************************************************************)
EXTENDS Integers, Sequences, FiniteSets, TLC

VARIABLES file, cache, UNITS_DATA, pc, call, converted_value, warning,
          error, display, history, runs

vars == <<file, cache, UNITS_DATA, pc, call, converted_value, warning,
          error, display, history, runs>>

\* ------------------------------------------------------------------ bounds

\* Largest magnitude of the small integer inputs typed into the number field.
MaxAbs == 1

\* Number of script reruns explored after the first run.
MaxRuns == 2

\* ------------------------------------------------------- Python numbers

Abs(x) == IF x < 0 THEN -x ELSE x

Sign(x) == IF x < 0 THEN -1 ELSE IF x = 0 THEN 0 ELSE 1

RECURSIVE Gcd(_, _)
Gcd(a, b) == IF b = 0 THEN a ELSE Gcd(b, a % b)

\* The rational n/d (d # 0) in lowest terms with a positive denominator.
Num(n, d) ==
    LET g == Gcd(Abs(n), Abs(d))
        s == IF d < 0 THEN -1 ELSE 1
    IN [k |-> "num", n |-> (s * n) \div g, d |-> (s * d) \div g]

Inf(s) == [k |-> "inf", n |-> s, d |-> 0]
NaN == [k |-> "nan", n |-> 0, d |-> 0]
BigInt == [k |-> "bigint", n |-> 1, d |-> 0]
True == [k |-> "bool", n |-> 1, d |-> 1]
False == [k |-> "bool", n |-> 0, d |-> 1]
Str == [k |-> "str", n |-> 0, d |-> 0]
Null == [k |-> "null", n |-> 0, d |-> 0]
None == [k |-> "None", n |-> 0, d |-> 0]
OverflowError == [k |-> "OverflowError", n |-> 0, d |-> 0]
ZeroDivisionError == [k |-> "ZeroDivisionError", n |-> 0, d |-> 0]
TypeError == [k |-> "TypeError", n |-> 0, d |-> 0]

IsException(x) == x.k \in {"OverflowError", "ZeroDivisionError", "TypeError"}

\* isinstance(x, (int, float)): bool is a subclass of int, and inf and nan
\* are floats.
isinstance_number(x) == x.k \in {"num", "bigint", "bool", "inf", "nan"}

\* x == 0 for a value that passed the isinstance check.
eq_zero_Never(x) == FALSE

eq_zero(x) == x.k \in {"num", "bool"} /\ x.n = 0

\* float * float, float + float, float / float on finite values.
RatMul(a, b) == Num(a.n * b.n, a.d * b.d)
RatAdd(a, b) == Num(a.n * b.d + b.n * a.d, a.d * b.d)
RatSub(a, b) == Num(a.n * b.d - b.n * a.d, a.d * b.d)
RatDiv(a, b) == Num(a.n * b.d, a.d * b.n)

\* a * b where a is a float: a str or None operand raises TypeError, a huge
\* int cannot be converted to float (OverflowError); otherwise IEEE
\* multiplication.
py_mul(a, b) ==
    IF IsException(a) THEN a
    ELSE IF ~isinstance_number(a) \/ ~isinstance_number(b) THEN TypeError
    ELSE IF a.k = "bigint" \/ b.k = "bigint" THEN OverflowError
    ELSE IF a.k = "nan" \/ b.k = "nan" THEN NaN
    ELSE IF a.k = "inf" \/ b.k = "inf"
         THEN IF Sign(a.n) * Sign(b.n) = 0 THEN NaN
              ELSE Inf(Sign(a.n) * Sign(b.n))
    ELSE RatMul(a, b)

\* a / b where a is a float.
py_truediv(a, b) ==
    IF IsException(a) THEN a
    ELSE IF ~isinstance_number(a) \/ ~isinstance_number(b) THEN TypeError
    ELSE IF a.k = "bigint" \/ b.k = "bigint" THEN OverflowError
    ELSE IF b.k \in {"num", "bool"} /\ b.n = 0 THEN ZeroDivisionError
    ELSE IF a.k = "nan" \/ b.k = "nan" THEN NaN
    ELSE IF a.k = "inf"
         THEN IF b.k = "inf" THEN NaN ELSE Inf(Sign(a.n) * Sign(b.n))
    ELSE IF b.k = "inf" THEN Num(0, 1)
    ELSE RatDiv(a, b)

\* ------------------------------------------------------------- messages

NoWarning == [msg |-> "none", units |-> <<>>]

\* html.escape on the unit names of the model: only "a&b" holds a character
\* that is escaped.
html_escape(s) == IF s = "a&b" THEN "a&amp;b" ELSE s

\* ------------------------------------------------------ conversion engine

\* value_in_base_units = value * from_factor;
\* converted_value = value_in_base_units / to_factor
scale_Swapped(value, from_factor, to_factor) ==
    py_truediv(py_mul(value, to_factor), from_factor)

scale(value, from_factor, to_factor) ==
    py_truediv(py_mul(value, from_factor), to_factor)

\* convert_standard with the missing-definition branch returning the input
\* value instead of None.
convert_standard_MissingReturnsValue(value, from_unit, to_unit, category_data) ==
    LET units == category_data.units IN
    IF from_unit = to_unit THEN [ret |-> value, warning |-> NoWarning]
    ELSE IF from_unit \notin DOMAIN units \/ to_unit \notin DOMAIN units
    THEN [ret |-> value,
          warning |-> [msg |-> "definition_missing",
                       units |-> <<html_escape(from_unit), html_escape(to_unit)>>]]
    ELSE
    LET from_factor == units[from_unit]
        to_factor == units[to_unit]
    IN
    IF ~isinstance_number(from_factor) \/ ~isinstance_number(to_factor)
    THEN [ret |-> None,
          warning |-> [msg |-> "invalid_factor_type",
                       units |-> <<html_escape(from_unit), html_escape(to_unit)>>]]
    ELSE IF eq_zero(to_factor)
    THEN [ret |-> None,
          warning |-> [msg |-> "division_by_zero",
                       units |-> <<html_escape(to_unit)>>]]
    ELSE
    LET converted == scale(value, from_factor, to_factor) IN
    IF converted = OverflowError
    THEN [ret |-> None, warning |-> [msg |-> "overflow", units |-> <<>>]]
    ELSE IF converted = ZeroDivisionError
    THEN [ret |-> None,
          warning |-> [msg |-> "zero_division_safeguard",
                       units |-> <<html_escape(to_unit)>>]]
    ELSE [ret |-> converted, warning |-> NoWarning]

\* convert_standard with the zero check made before the type check.
convert_standard_ZeroCheckFirst(value, from_unit, to_unit, category_data) ==
    LET units == category_data.units IN
    IF from_unit = to_unit THEN [ret |-> value, warning |-> NoWarning]
    ELSE IF from_unit \notin DOMAIN units \/ to_unit \notin DOMAIN units
    THEN [ret |-> None,
          warning |-> [msg |-> "definition_missing",
                       units |-> <<html_escape(from_unit), html_escape(to_unit)>>]]
    ELSE
    LET from_factor == units[from_unit]
        to_factor == units[to_unit]
    IN
    IF eq_zero(to_factor)
    THEN [ret |-> None,
          warning |-> [msg |-> "division_by_zero",
                       units |-> <<html_escape(to_unit)>>]]
    ELSE IF ~isinstance_number(from_factor) \/ ~isinstance_number(to_factor)
    THEN [ret |-> None,
          warning |-> [msg |-> "invalid_factor_type",
                       units |-> <<html_escape(from_unit), html_escape(to_unit)>>]]
    ELSE
    LET converted == scale(value, from_factor, to_factor) IN
    IF converted = OverflowError
    THEN [ret |-> None, warning |-> [msg |-> "overflow", units |-> <<>>]]
    ELSE IF converted = ZeroDivisionError
    THEN [ret |-> None,
          warning |-> [msg |-> "zero_division_safeguard",
                       units |-> <<html_escape(to_unit)>>]]
    ELSE [ret |-> converted, warning |-> NoWarning]

\* convert_standard without the identity short-circuit of lines 27-28.
convert_standard_NoIdentity(value, from_unit, to_unit, category_data) ==
    LET units == category_data.units IN
    IF from_unit \notin DOMAIN units \/ to_unit \notin DOMAIN units
    THEN [ret |-> None,
          warning |-> [msg |-> "definition_missing",
                       units |-> <<html_escape(from_unit), html_escape(to_unit)>>]]
    ELSE
    LET from_factor == units[from_unit]
        to_factor == units[to_unit]
    IN
    IF ~isinstance_number(from_factor) \/ ~isinstance_number(to_factor)
    THEN [ret |-> None,
          warning |-> [msg |-> "invalid_factor_type",
                       units |-> <<html_escape(from_unit), html_escape(to_unit)>>]]
    ELSE IF eq_zero(to_factor)
    THEN [ret |-> None,
          warning |-> [msg |-> "division_by_zero",
                       units |-> <<html_escape(to_unit)>>]]
    ELSE
    LET converted == scale(value, from_factor, to_factor) IN
    IF converted = OverflowError
    THEN [ret |-> None, warning |-> [msg |-> "overflow", units |-> <<>>]]
    ELSE IF converted = ZeroDivisionError
    THEN [ret |-> None,
          warning |-> [msg |-> "zero_division_safeguard",
                       units |-> <<html_escape(to_unit)>>]]
    ELSE [ret |-> converted, warning |-> NoWarning]

\* category_data['units'] is a dict: a function from unit names to factors.
\* An exception the try block does not catch (TypeError) propagates as ret.
convert_standard(value, from_unit, to_unit, category_data) ==
    LET units == category_data.units IN
    IF from_unit = to_unit THEN [ret |-> value, warning |-> NoWarning]
    ELSE IF from_unit \notin DOMAIN units \/ to_unit \notin DOMAIN units
    THEN [ret |-> None,
          warning |-> [msg |-> "definition_missing",
                       units |-> <<html_escape(from_unit), html_escape(to_unit)>>]]
    ELSE
    LET from_factor == units[from_unit]
        to_factor == units[to_unit]
    IN
    IF ~isinstance_number(from_factor) \/ ~isinstance_number(to_factor)
    THEN [ret |-> None,
          warning |-> [msg |-> "invalid_factor_type",
                       units |-> <<html_escape(from_unit), html_escape(to_unit)>>]]
    ELSE IF eq_zero(to_factor)
    THEN [ret |-> None,
          warning |-> [msg |-> "division_by_zero",
                       units |-> <<html_escape(to_unit)>>]]
    ELSE
    LET converted == scale(value, from_factor, to_factor) IN
    IF converted = OverflowError
    THEN [ret |-> None, warning |-> [msg |-> "overflow", units |-> <<>>]]
    ELSE IF converted = ZeroDivisionError
    THEN [ret |-> None,
          warning |-> [msg |-> "zero_division_safeguard",
                       units |-> <<html_escape(to_unit)>>]]
    ELSE [ret |-> converted, warning |-> NoWarning]

Whole(n) == Num(n, 1)

\* 273.15
KelvinOffset == Num(27315, 100)

TemperatureUnits == {"C", "F", "K"}

\* to_celsius with the Fahrenheit ratio inverted (9/5 for 5/9).
to_celsius_InvertedRatio(value, from_unit) ==
    IF from_unit = "F"
    THEN RatDiv(RatMul(RatSub(value, Whole(32)), Whole(9)), Whole(5))
    ELSE IF from_unit = "K" THEN RatSub(value, KelvinOffset)
    ELSE value

\* celsius = (value - 32) * 5/9 | value - 273.15 | value
to_celsius(value, from_unit) ==
    IF from_unit = "F"
    THEN RatDiv(RatMul(RatSub(value, Whole(32)), Whole(5)), Whole(9))
    ELSE IF from_unit = "K" THEN RatSub(value, KelvinOffset)
    ELSE value

\* (celsius * 9/5) + 32 | celsius + 273.15 | celsius
from_celsius(celsius, to_unit) ==
    IF to_unit = "F"
    THEN RatAdd(RatDiv(RatMul(celsius, Whole(9)), Whole(5)), Whole(32))
    ELSE IF to_unit = "K" THEN RatAdd(celsius, KelvinOffset)
    ELSE celsius

\* convert_temperature without the final else: an unknown target unit falls
\* through with the Celsius value.
convert_temperature_NoToCheck(value, from_unit, to_unit) ==
    IF from_unit = to_unit THEN [ret |-> value, warning |-> NoWarning]
    ELSE IF from_unit \notin TemperatureUnits
    THEN [ret |-> None,
          warning |-> [msg |-> "unknown_from_temperature_unit",
                       units |-> <<html_escape(from_unit)>>]]
    ELSE [ret |-> from_celsius(to_celsius(value, from_unit), to_unit),
          warning |-> NoWarning]

convert_temperature(value, from_unit, to_unit) ==
    IF from_unit = to_unit THEN [ret |-> value, warning |-> NoWarning]
    ELSE IF from_unit \notin TemperatureUnits
    THEN [ret |-> None,
          warning |-> [msg |-> "unknown_from_temperature_unit",
                       units |-> <<html_escape(from_unit)>>]]
    ELSE IF to_unit \notin TemperatureUnits
    THEN [ret |-> None,
          warning |-> [msg |-> "unknown_to_temperature_unit",
                       units |-> <<html_escape(to_unit)>>]]
    ELSE [ret |-> from_celsius(to_celsius(value, from_unit), to_unit),
          warning |-> NoWarning]

\* ------------------------------------------------------------- the data

\* A category definition of units_data.json: a JSON object with an optional
\* "type" ("absent" when the key is missing) and an optional "units", which
\* is a dict (a function from unit names to factors) or some other JSON value.
Category(type, has_units, units_is_dict, units) ==
    [type |-> type, has_units |-> has_units, units_is_dict |-> units_is_dict,
     units |-> units]

Linear(units) == Category("absent", TRUE, TRUE, units)

Length == Linear("m" :> Whole(1) @@ "km" :> Whole(1000) @@ "cm" :> Num(1, 100))

\* The factors a units dict of the model may hold.
Factors ==
    {Whole(0), Whole(1), Whole(1000), Num(1, 100), Whole(-1),
     True, False, Str, Null, Inf(1), NaN, BigInt}

\* The values passed to the engine: finite floats.
Values ==
    {Whole(n) : n \in (-MaxAbs)..MaxAbs}
        \cup {Whole(2), Whole(5), Whole(32), Whole(100), Whole(-300), Num(1, 2)}

\* The categories handed to convert_standard directly.
EngineCategories ==
    {Length} \cup {Linear("A" :> a @@ "B" :> b) : a, b \in Factors}

EngineUnits == {"A", "B", "m", "km", "cm", "xyz", "a&b"}

EngineTemperatureUnits == {"C", "F", "K", "c", "X", "a&b"}

\* Parsed JSON documents: a top-level object (dict of categories) or null.
Dict(cats) == [k |-> "dict", cats |-> cats]
JsonNull == [k |-> "null", cats |-> <<>>]
Unset == [k |-> "unset", cats |-> <<>>]
Missing == [k |-> "missing", cats |-> <<>>]
BadJson == [k |-> "badjson", cats |-> <<>>]

\* The example document of the definition source format.
ExampleData ==
    Dict("Length" :> Length
         @@ "Temperature" :>
              Category("temperature", TRUE, TRUE,
                       "C" :> Whole(1) @@ "F" :> Whole(1) @@ "K" :> Whole(1)))

\* A document that parses as JSON and holds ill-formed categories.
IllFormedData ==
    Dict("AB" :> Linear("A" :> Whole(1) @@ "B" :> Whole(0))
         @@ "Bad" :> Linear("A" :> Str @@ "B" :> Whole(0))
         @@ "Empty" :> Linear(<<>>)
         @@ "NoUnits" :> Category("absent", FALSE, FALSE, <<>>)
         @@ "ListUnits" :> Category("absent", TRUE, FALSE, <<>>)
         @@ "Volume" :> Category("volume", TRUE, TRUE, "A" :> Inf(1) @@ "" :> Whole(1))
         @@ "" :> Linear("A" :> Whole(1))
         @@ "TempX" :> Category("temperature", TRUE, TRUE, "C" :> Whole(1) @@ "X" :> Whole(1)))

\* What open('units_data.json') and json.load can meet: no file, invalid
\* JSON, or a document that is null or an object of category objects. (A
\* top-level list, string or number, or a category that is not an object,
\* makes main raise an uncaught exception and is left out.)
Files == {Missing, BadJson, JsonNull, Dict(<<>>), ExampleData, IllFormedData}

\* The values of the number input (default 1.0).
AppValues == {Whole(1), Whole(-300)}

NoCall ==
    [fn |-> "none", value |-> None, from_unit |-> "", to_unit |-> "",
     category_data |-> Linear(<<>>)]

Call(fn, value, from_unit, to_unit, category_data) ==
    [fn |-> fn, value |-> value, from_unit |-> from_unit, to_unit |-> to_unit,
     category_data |-> category_data]

\* bool(x) of the loaded data: None and the empty dict are falsy.
Truthy(data) == data.k = "dict" /\ DOMAIN data.cats # {}

\* ------------------------------------------------------------ the script

Init ==
    /\ file \in Files
    /\ cache = [hit |-> FALSE, data |-> Unset]
    /\ UNITS_DATA = Unset
    /\ pc = "load"
    /\ call = NoCall
    /\ converted_value = None
    /\ warning = NoWarning
    /\ error = "none"
    /\ display = "none"
    /\ history = {}
    /\ runs = 0

\* st.error(message); st.stop(): the run ends here.
Stop(message) ==
    /\ error' = message
    /\ pc' = "stopped"

\* The CategoryDefinition invariants of the data model: a category has a
\* units dict, and a linear one has a non-empty dict of finite numbers.
WellFormedCategory(c) ==
    /\ c.has_units /\ c.units_is_dict
    /\ (c.type # "temperature"
         => /\ DOMAIN c.units # {}
            /\ \A u \in DOMAIN c.units : c.units[u].k = "num")

WellFormedCatalog(data) ==
    data.k = "dict" /\ \A name \in DOMAIN data.cats : WellFormedCategory(data.cats[name])

\* load_data with the two except branches reporting the error and returning
\* None instead of stopping the run.
load_data_NoStop ==
    /\ pc = "load"
    /\ IF cache.hit
       THEN /\ UNITS_DATA' = cache.data
            /\ pc' = "main"
            /\ UNCHANGED <<cache, error>>
       ELSE IF file.k = "missing"
       THEN /\ error' = "units_data.json not found"
            /\ UNITS_DATA' = JsonNull
            /\ pc' = "main"
            /\ UNCHANGED cache
       ELSE IF file.k = "badjson"
       THEN /\ error' = "units_data.json is malformed"
            /\ UNITS_DATA' = JsonNull
            /\ pc' = "main"
            /\ UNCHANGED cache
       ELSE /\ UNITS_DATA' = file
            /\ cache' = [hit |-> TRUE, data |-> file]
            /\ pc' = "main"
            /\ UNCHANGED error
    /\ UNCHANGED <<file, call, converted_value, warning, display, history, runs>>

\* load_data rejecting, as malformed, a document that parses but breaks the
\* CategoryDefinition invariants.
load_data_Validating ==
    /\ pc = "load"
    /\ IF cache.hit
       THEN /\ UNITS_DATA' = cache.data
            /\ pc' = "main"
            /\ UNCHANGED <<cache, error>>
       ELSE IF file.k = "missing"
       THEN /\ Stop("units_data.json not found")
            /\ UNCHANGED <<cache, UNITS_DATA>>
       ELSE IF file.k = "badjson" \/ ~WellFormedCatalog(file)
       THEN /\ Stop("units_data.json is malformed")
            /\ UNCHANGED <<cache, UNITS_DATA>>
       ELSE /\ UNITS_DATA' = file
            /\ cache' = [hit |-> TRUE, data |-> file]
            /\ pc' = "main"
            /\ UNCHANGED error
    /\ UNCHANGED <<file, call, converted_value, warning, display, history, runs>>

\* UNITS_DATA = load_data() under @st.cache_data: a cached result is
\* returned without touching the file; an exception or st.stop() caches
\* nothing.
load_data ==
    /\ pc = "load"
    /\ IF cache.hit
       THEN /\ UNITS_DATA' = cache.data
            /\ pc' = "main"
            /\ UNCHANGED <<cache, error>>
       ELSE IF file.k = "missing"
       THEN /\ Stop("units_data.json not found")
            /\ UNCHANGED <<cache, UNITS_DATA>>
       ELSE IF file.k = "badjson"
       THEN /\ Stop("units_data.json is malformed")
            /\ UNCHANGED <<cache, UNITS_DATA>>
       ELSE /\ UNITS_DATA' = file
            /\ cache' = [hit |-> TRUE, data |-> file]
            /\ pc' = "main"
            /\ UNCHANGED error
    /\ UNCHANGED <<file, call, converted_value, warning, display, history, runs>>

\* The result-display block of main (lines 202-212).
Display(value, attempted) ==
    IF value # None THEN "result"
    ELSE IF attempted THEN "could_not_perform_conversion"
    ELSE "enter_values"

\* One conversion request and its outcome, as the caller sees it.
Outcome(c, r) == [call |-> c, ret |-> r.ret, warning |-> r.warning]

\* main writing the base factor into the target unit's entry of the loaded
\* table after a request.
main_Mutating ==
    /\ pc = "main"
    /\ IF ~Truthy(UNITS_DATA)
       THEN /\ Stop("Unit data is not available")
            /\ UNCHANGED <<UNITS_DATA, call, converted_value, warning, display, history>>
       ELSE \E selected_category_name \in DOMAIN UNITS_DATA.cats :
         IF selected_category_name = ""
         THEN /\ Stop("Invalid category selected")
              /\ UNCHANGED <<UNITS_DATA, call, converted_value, warning, display, history>>
         ELSE
         LET category_data == UNITS_DATA.cats[selected_category_name] IN
         IF \/ ~category_data.has_units
            \/ ~category_data.units_is_dict
            \/ DOMAIN category_data.units = {}
         THEN /\ Stop("No units found or units are malformed")
              /\ UNCHANGED <<UNITS_DATA, call, converted_value, warning, display, history>>
         ELSE \E from_unit, to_unit \in DOMAIN category_data.units :
              \E value_to_convert \in AppValues :
                LET attempted == from_unit # "" /\ to_unit # ""
                    c == IF category_data.type = "temperature"
                         THEN Call("convert_temperature", value_to_convert,
                                   from_unit, to_unit, category_data)
                         ELSE Call("convert_standard", value_to_convert,
                                   from_unit, to_unit, category_data)
                    r == IF category_data.type = "temperature"
                         THEN convert_temperature(value_to_convert, from_unit, to_unit)
                         ELSE convert_standard(value_to_convert, from_unit, to_unit,
                                               category_data)
                IN /\ call' = IF attempted THEN c ELSE NoCall
                   /\ converted_value' = IF attempted THEN r.ret ELSE None
                   /\ warning' = IF attempted THEN r.warning ELSE NoWarning
                   /\ display' = Display(converted_value', attempted)
                   /\ history' = IF attempted THEN history \cup {Outcome(c, r)}
                                  ELSE history
                   /\ pc' = "done"
                   /\ UNCHANGED error
                   /\ UNITS_DATA' =
                        [UNITS_DATA EXCEPT
                           !.cats[selected_category_name].units[to_unit] = Whole(1)]
    /\ UNCHANGED <<file, cache, runs>>

\* The body of main. The empty-list test of line 169 cannot succeed after
\* the test of line 161, and the selectbox returns one of its options, so of
\* line 177 only the empty name matters.
main ==
    /\ pc = "main"
    /\ IF ~Truthy(UNITS_DATA)
       THEN /\ Stop("Unit data is not available")
            /\ UNCHANGED <<call, converted_value, warning, display, history>>
       ELSE \E selected_category_name \in DOMAIN UNITS_DATA.cats :
         IF selected_category_name = ""
         THEN /\ Stop("Invalid category selected")
              /\ UNCHANGED <<call, converted_value, warning, display, history>>
         ELSE
         LET category_data == UNITS_DATA.cats[selected_category_name] IN
         IF \/ ~category_data.has_units
            \/ ~category_data.units_is_dict
            \/ DOMAIN category_data.units = {}
         THEN /\ Stop("No units found or units are malformed")
              /\ UNCHANGED <<call, converted_value, warning, display, history>>
         ELSE \E from_unit, to_unit \in DOMAIN category_data.units :
              \E value_to_convert \in AppValues :
                LET attempted == from_unit # "" /\ to_unit # ""
                    c == IF category_data.type = "temperature"
                         THEN Call("convert_temperature", value_to_convert,
                                   from_unit, to_unit, category_data)
                         ELSE Call("convert_standard", value_to_convert,
                                   from_unit, to_unit, category_data)
                    r == IF category_data.type = "temperature"
                         THEN convert_temperature(value_to_convert, from_unit, to_unit)
                         ELSE convert_standard(value_to_convert, from_unit, to_unit,
                                               category_data)
                IN /\ call' = IF attempted THEN c ELSE NoCall
                   /\ converted_value' = IF attempted THEN r.ret ELSE None
                   /\ warning' = IF attempted THEN r.warning ELSE NoWarning
                   /\ display' = Display(converted_value', attempted)
                   /\ history' = IF attempted THEN history \cup {Outcome(c, r)}
                                  ELSE history
                   /\ pc' = "done"
                   /\ UNCHANGED error
    /\ UNCHANGED <<file, cache, UNITS_DATA, runs>>

\* A widget interaction or a browser reload runs the script again from the
\* top, with fresh script variables and the same cache.
Rerun ==
    /\ pc \in {"done", "stopped"}
    /\ runs < MaxRuns
    /\ runs' = runs + 1
    /\ pc' = "load"
    /\ UNITS_DATA' = Unset
    /\ call' = NoCall
    /\ converted_value' = None
    /\ warning' = NoWarning
    /\ error' = "none"
    /\ display' = "none"
    /\ UNCHANGED <<file, cache, history>>

Next == load_data \/ main \/ Rerun

Spec == Init /\ [][Next]_vars

\* ------------------------------------------------- the engine, called directly

\* The arguments of one direct call, drawn before the call is made.
StandardCalls ==
    {Call("convert_standard", value, from_unit, to_unit, category_data) :
        value \in Values, from_unit \in EngineUnits, to_unit \in EngineUnits,
        category_data \in EngineCategories}

TemperatureCalls ==
    {Call("convert_temperature", value, from_unit, to_unit, Linear(<<>>)) :
        value \in Values, from_unit \in EngineTemperatureUnits,
        to_unit \in EngineTemperatureUnits}

EngineInit ==
    /\ file = Missing
    /\ cache = [hit |-> FALSE, data |-> Unset]
    /\ UNITS_DATA = Unset
    /\ pc = "engine"
    /\ call \in StandardCalls \cup TemperatureCalls
    /\ converted_value = None
    /\ warning = NoWarning
    /\ error = "none"
    /\ display = "none"
    /\ history = {}
    /\ runs = 0

call_convert_standard ==
    /\ pc = "engine"
    /\ call.fn = "convert_standard"
    /\ LET r == convert_standard(call.value, call.from_unit, call.to_unit,
                                 call.category_data)
       IN /\ converted_value' = r.ret
          /\ warning' = r.warning
    /\ pc' = "returned"
    /\ UNCHANGED <<file, cache, UNITS_DATA, call, error, display, history, runs>>

call_convert_temperature ==
    /\ pc = "engine"
    /\ call.fn = "convert_temperature"
    /\ LET r == convert_temperature(call.value, call.from_unit, call.to_unit)
       IN /\ converted_value' = r.ret
          /\ warning' = r.warning
    /\ pc' = "returned"
    /\ UNCHANGED <<file, cache, UNITS_DATA, call, error, display, history, runs>>

EngineNext == call_convert_standard \/ call_convert_temperature

SpecEngine == EngineInit /\ [][EngineNext]_vars

\* ---------------------------------------------------- properties: the engine

StdReturned == pc = "returned" /\ call.fn = "convert_standard"
TempReturned == pc = "returned" /\ call.fn = "convert_temperature"
CallUnits == call.category_data.units
BothKeys == call.from_unit \in DOMAIN CallUnits /\ call.to_unit \in DOMAIN CallUnits
FromFactor == CallUnits[call.from_unit]
ToFactor == CallUnits[call.to_unit]
IsZeroFactor(f) == f.k \in {"num", "bool"} /\ f.n = 0
PassesTypeCheck(f) == f.k \in {"num", "bigint", "bool", "inf", "nan"}
Named(w) == {w.units[i] : i \in DOMAIN w.units}

\* (v * f) / t as one exact fraction.
Scaled(v, f, t) == Num(v.n * f.n * t.d, v.d * f.d * t.n)

\* C1 as stated: whenever convert_standard is called with fromUnit # toUnit,
\* both units defined, both factors numbers (JSON numbers of any size) and a
\* non-zero toUnit factor, it returns the number (value * from) / to.
C1_Original ==
    (/\ StdReturned /\ call.from_unit # call.to_unit /\ BothKeys
     /\ FromFactor.k \in {"num", "bigint"} /\ ToFactor.k \in {"num", "bigint"}
     /\ ~IsZeroFactor(ToFactor))
    => /\ converted_value.k = "num"
       /\ (FromFactor.k = "num" /\ ToFactor.k = "num"
             => converted_value = Scaled(call.value, FromFactor, ToFactor))

\* C1 amended: with both factors numbers inside the float range the result is
\* exactly (value * from) / to, unrounded and without a warning (2 km is
\* 200000 cm); with a factor that is an integer beyond the float range the
\* call returns None with the overflow warning.
C1_LinearResult ==
    (StdReturned /\ call.from_unit # call.to_unit /\ BothKeys
        /\ ~IsZeroFactor(ToFactor))
    => /\ (FromFactor.k = "num" /\ ToFactor.k = "num"
            => /\ converted_value = Scaled(call.value, FromFactor, ToFactor)
               /\ warning = NoWarning)
       /\ (call.category_data = Length /\ call.value = Whole(2)
             /\ call.from_unit = "km" /\ call.to_unit = "cm"
            => converted_value = Whole(200000))
       /\ ({FromFactor.k, ToFactor.k} \subseteq {"num", "bigint"}
             /\ "bigint" \in {FromFactor.k, ToFactor.k}
            => /\ converted_value = None
               /\ warning = [msg |-> "overflow", units |-> <<>>])

C1_Witness ==
    /\ StdReturned
    /\ call = Call("convert_standard", Whole(2), "km", "cm", Length)
    /\ converted_value = Whole(200000)

\* C2 as stated: whenever fromUnit or toUnit is not a key of the units, for
\* every pair of unit arguments including equal ones, the call returns no
\* number and reports an unknown unit that names the offending unit.
C2_Original ==
    (StdReturned /\ ~BothKeys)
    => /\ converted_value = None
       /\ warning.msg = "definition_missing"
       /\ (call.from_unit \notin DOMAIN CallUnits
             => html_escape(call.from_unit) \in Named(warning))
       /\ (call.to_unit \notin DOMAIN CallUnits
             => html_escape(call.to_unit) \in Named(warning))

\* C2 amended: whenever fromUnit # toUnit and one of them is not a key of the
\* units, the call returns None with the missing-definition warning, which
\* names both units (HTML-escaped) and so includes the offending one.
C2_UnknownUnit ==
    (StdReturned /\ call.from_unit # call.to_unit /\ ~BothKeys)
    => /\ converted_value = None
       /\ warning = [msg |-> "definition_missing",
                     units |-> <<html_escape(call.from_unit),
                                 html_escape(call.to_unit)>>]

C2_Witness ==
    /\ StdReturned
    /\ call.from_unit = "xyz" /\ call.to_unit = "m"
    /\ call.category_data = Length
    /\ converted_value = None
    /\ "xyz" \in Named(warning)

\* C3: whenever fromUnit # toUnit, both units are defined with factors that
\* are numbers and the toUnit factor is 0, the call returns None, not a
\* number, with the division-by-zero warning naming toUnit.
C3_DivisionByZero ==
    (/\ StdReturned /\ call.from_unit # call.to_unit /\ BothKeys
     /\ PassesTypeCheck(FromFactor) /\ PassesTypeCheck(ToFactor)
     /\ IsZeroFactor(ToFactor))
    => /\ converted_value = None
       /\ warning = [msg |-> "division_by_zero",
                     units |-> <<html_escape(call.to_unit)>>]

C3_Witness ==
    /\ StdReturned
    /\ call = Call("convert_standard", Whole(5), "A", "B",
                   Linear("A" :> Whole(1) @@ "B" :> Whole(0)))
    /\ converted_value = None
    /\ warning = [msg |-> "division_by_zero", units |-> <<"B">>]

\* C4 as stated: with both units defined, a factor that is not a finite real
\* number makes the call fail with the invalid-factor error, also when the
\* toUnit factor is zero, and division by zero is reported only when both
\* factors are finite real numbers.
C4_Original ==
    (StdReturned /\ call.from_unit # call.to_unit /\ BothKeys)
    => /\ (FromFactor.k \notin {"num", "bigint"} \/ ToFactor.k \notin {"num", "bigint"}
            => converted_value = None /\ warning.msg = "invalid_factor_type")
       /\ (warning.msg = "division_by_zero"
            => FromFactor.k \in {"num", "bigint"} /\ ToFactor.k \in {"num", "bigint"})

\* C4 amended: the checks run in the order unknown unit, factor type,
\* division by zero. With both units defined, a factor that is not an int or
\* float by type (a string, null) makes the call return None with the
\* invalid-factor warning naming both units, also when the toUnit factor is
\* zero; division by zero is reported only when both factors pass the type
\* check, which booleans, infinities and NaN do.
C4_CheckOrder ==
    StdReturned /\ call.from_unit # call.to_unit
    => /\ (warning.msg \in {"invalid_factor_type", "division_by_zero"} => BothKeys)
       /\ (BothKeys /\ (~PassesTypeCheck(FromFactor) \/ ~PassesTypeCheck(ToFactor))
            => /\ converted_value = None
               /\ warning = [msg |-> "invalid_factor_type",
                             units |-> <<html_escape(call.from_unit),
                                         html_escape(call.to_unit)>>])
       /\ (warning.msg = "division_by_zero"
            => PassesTypeCheck(FromFactor) /\ PassesTypeCheck(ToFactor))

C4_Witness ==
    /\ StdReturned
    /\ call.from_unit = "A" /\ call.to_unit = "B"
    /\ call.category_data = Linear("A" :> Str @@ "B" :> Whole(0))
    /\ warning.msg = "invalid_factor_type"

\* C5: whenever fromUnit = toUnit, the call returns the value unchanged and
\* warns of nothing, whatever the unit's factor is.
C5_Identity ==
    (StdReturned /\ call.from_unit = call.to_unit)
    => converted_value = call.value /\ warning = NoWarning

C5_Witness ==
    /\ StdReturned
    /\ call.from_unit = "B" /\ call.to_unit = "B"
    /\ CallUnits["B"] \in {Whole(0), Str}
    /\ converted_value = call.value

\* C6 as stated: whenever fromUnit or toUnit is not exactly C, F or K, for
\* every pair of unit arguments including equal ones, the temperature
\* conversion returns no number and reports that symbol as unknown.
C6_Original ==
    (/\ TempReturned
     /\ (call.from_unit \notin {"C", "F", "K"} \/ call.to_unit \notin {"C", "F", "K"}))
    => /\ converted_value = None
       /\ warning.msg \in {"unknown_from_temperature_unit",
                           "unknown_to_temperature_unit"}

\* C6 amended: whenever fromUnit # toUnit and one of them is not exactly C, F
\* or K, the temperature conversion returns None and warns of an unknown
\* unit: of fromUnit when that is unknown, otherwise of toUnit.
C6_UnknownTemperatureUnit ==
    (/\ TempReturned /\ call.from_unit # call.to_unit
     /\ (call.from_unit \notin {"C", "F", "K"} \/ call.to_unit \notin {"C", "F", "K"}))
    => /\ converted_value = None
       /\ warning = IF call.from_unit \notin {"C", "F", "K"}
                    THEN [msg |-> "unknown_from_temperature_unit",
                          units |-> <<html_escape(call.from_unit)>>]
                    ELSE [msg |-> "unknown_to_temperature_unit",
                          units |-> <<html_escape(call.to_unit)>>]

C6_Witness ==
    /\ TempReturned
    /\ call.from_unit = "C" /\ call.to_unit = "c"
    /\ converted_value = None
    /\ warning = [msg |-> "unknown_to_temperature_unit", units |-> <<"c">>]

\* The six conversions between distinct units, each as one exact fraction of
\* v = n/d.
TemperatureFormula(v, from_unit, to_unit) ==
    CASE from_unit = "C" /\ to_unit = "F" -> Num(9 * v.n + 160 * v.d, 5 * v.d)
      [] from_unit = "C" /\ to_unit = "K" -> Num(100 * v.n + 27315 * v.d, 100 * v.d)
      [] from_unit = "F" /\ to_unit = "C" -> Num(5 * (v.n - 32 * v.d), 9 * v.d)
      [] from_unit = "F" /\ to_unit = "K" ->
            Num(500 * (v.n - 32 * v.d) + 245835 * v.d, 900 * v.d)
      [] from_unit = "K" /\ to_unit = "C" -> Num(100 * v.n - 27315 * v.d, 100 * v.d)
      [] from_unit = "K" /\ to_unit = "F" ->
            Num(9 * (100 * v.n - 27315 * v.d) + 16000 * v.d, 500 * v.d)

\* C7: for distinct units among C, F and K the temperature conversion returns
\* the two-stage value through Celsius, with 0 C = 32 F, 100 C = 212 F,
\* 0 C = 273.15 K and 32 F = 0 C, and it converts values below absolute zero
\* like any other, without a warning.
C7_TemperatureResult ==
    (/\ TempReturned /\ call.from_unit # call.to_unit
     /\ call.from_unit \in {"C", "F", "K"} /\ call.to_unit \in {"C", "F", "K"})
    => /\ converted_value = TemperatureFormula(call.value, call.from_unit, call.to_unit)
       /\ warning = NoWarning
       /\ (call.value = Whole(0) /\ call.from_unit = "C" /\ call.to_unit = "F"
            => converted_value = Whole(32))
       /\ (call.value = Whole(100) /\ call.from_unit = "C" /\ call.to_unit = "F"
            => converted_value = Whole(212))
       /\ (call.value = Whole(0) /\ call.from_unit = "C" /\ call.to_unit = "K"
            => converted_value = Num(27315, 100))
       /\ (call.value = Whole(32) /\ call.from_unit = "F" /\ call.to_unit = "C"
            => converted_value = Whole(0))

C7_Witness ==
    /\ TempReturned
    /\ call.value = Whole(-300) /\ call.from_unit = "C" /\ call.to_unit = "K"
    /\ converted_value = Num(-2685, 100)

\* ---------------------------------------------------- properties: the script

LoadErrors == {"units_data.json not found", "units_data.json is malformed"}

\* C8: when units_data.json is missing or is not valid JSON, load_data stops
\* the run with a critical error: the run never reaches main, no table is
\* loaded and no conversion is performed, in this run or in any rerun.
C8_LoadFailureHalts ==
    /\ (file.k \in {"missing", "badjson"}
         => /\ pc \in {"load", "stopped"}
            /\ UNITS_DATA = Unset
            /\ call = NoCall /\ converted_value = None /\ history = {}
            /\ (pc = "stopped" => error \in LoadErrors))
    /\ (error \in LoadErrors => pc = "stopped")

C8_Witness ==
    /\ file.k = "badjson"
    /\ runs = 1
    /\ pc = "stopped"
    /\ error = "units_data.json is malformed"

\* C9 as stated: every catalog that load returns is well-formed, and no
\* conversion request sees an ill-formed category.
C9_Original ==
    /\ (UNITS_DATA.k = "dict" => WellFormedCatalog(UNITS_DATA))
    /\ (call # NoCall => WellFormedCategory(call.category_data))

\* C9 amended: load_data checks only that the file exists and parses; any
\* parsed document is returned as it is. The schema is checked later, per
\* run and per request: main stops the run unless the selected category has a
\* non-empty units dict, so every category handed to a conversion has one and
\* is an entry of the loaded table; any type other than "temperature" is
\* converted as linear; and a factor that is not a number is rejected by
\* convert_standard with the invalid-factor warning.
C9_ValidationPlaces ==
    /\ (file.k \in {"dict", "null"} /\ pc # "load"
         => UNITS_DATA = file /\ error \notin LoadErrors)
    /\ (call # NoCall
         => /\ call.category_data.has_units /\ call.category_data.units_is_dict
            /\ DOMAIN call.category_data.units # {}
            /\ \E name \in DOMAIN UNITS_DATA.cats :
                  UNITS_DATA.cats[name] = call.category_data
            /\ (call.fn = "convert_temperature"
                  <=> call.category_data.type = "temperature")
            /\ (/\ call.fn = "convert_standard" /\ call.from_unit # call.to_unit
                /\ (~PassesTypeCheck(FromFactor) \/ ~PassesTypeCheck(ToFactor))
                => converted_value = None /\ warning.msg = "invalid_factor_type"))
    /\ (error = "No units found or units are malformed"
         => pc = "stopped" /\ call = NoCall)

C9_Witness ==
    /\ pc = "done"
    /\ call.fn = "convert_standard"
    /\ call.from_unit = "A" /\ call.to_unit = "B"
    /\ call.category_data = Linear("A" :> Str @@ "B" :> Whole(0))
    /\ ~WellFormedCatalog(UNITS_DATA)
    /\ converted_value = None
    /\ warning.msg = "invalid_factor_type"

\* C10: a conversion request, successful or failing, leaves the loaded table,
\* the cache and the file as they were, and a request with the same category,
\* units and value has the same outcome (result and warning) after any
\* sequence of earlier requests.
C10_Stateless ==
    /\ [][pc = "main" => /\ UNITS_DATA' = UNITS_DATA
                         /\ cache' = cache
                         /\ file' = file]_vars
    /\ [](\A a, b \in history : a.call = b.call => a = b)
    /\ [](pc = "done" /\ call # NoCall
            => [call |-> call, ret |-> converted_value, warning |-> warning]
                  \in history)

C10_Witness ==
    /\ file = ExampleData
    /\ runs = 2
    /\ pc = "done"
    /\ call # NoCall
    /\ Cardinality(history) = 1

====
